---- MODULE Spec2Model ----
(***************************************************************************)
(* BundleMultiplexer (gateware/bundle_multiplexer.py): one synchronous     *)
(* clock domain.  A state of the model is the content of the registers     *)
(* after a clock edge (the receive FIFOs, current_bundle,                  *)
(* first_bundle_channel) together with the values the interface signals    *)
(* had during the tick that ended at that edge.  One step of the model is  *)
(* one clock tick: the combinational statements (m.d.comb) are evaluated   *)
(* on the registers before the edge and the inputs of the tick, the        *)
(* synchronous statements (m.d.sync) give the registers after the edge.    *)
(***************************************************************************)
EXTENDS Integers, Sequences, FiniteSets

\* ---------------------------------------------------------------- parameters

NO_CHANNELS_ADAT == 8
SAMPLE_WIDTH     == 24

\* Constructor argument no_bundles (default 4); the model is checked for a
\* small bundle count.
no_bundles == 2

\* Arbitrary stimulus: the producers offer events only while fewer than
\* MaxPending events are buffered in all FIFOs together.
MaxPending == 2

Bundles == 0 .. (no_bundles - 1)

Pow2(n) == 2 ^ n

\* nmigen bits_for(n) for n >= 0: the width of an unsigned signal holding n;
\* Shape.cast(range(k)).width is bits_for(k - 1).
RECURSIVE bits_for(_)
bits_for(n) == IF n <= 1 THEN 1 ELSE 1 + bits_for(n \div 2)

\* Variant: the channel number field is one bit narrower.
channel_bits_short  == bits_for(no_bundles * NO_CHANNELS_ADAT - 1) - 1

channel_bits        == bits_for(no_bundles * NO_CHANNELS_ADAT - 1)
bundle_channel_bits == bits_for(NO_CHANNELS_ADAT - 1)
current_bundle_bits == bits_for(no_bundles - 1)
fifo_width          == SAMPLE_WIDTH + bundle_channel_bits + 1

\* Variant: the FIFOs are built twice as deep as a frame.
fifo_depth_double == 2 * NO_CHANNELS_ADAT

\* Variant: the FIFOs are built one event short of a frame.
fifo_depth_short == NO_CHANNELS_ADAT - 1

fifo_depth == NO_CHANNELS_ADAT

\* ---------------------------------------------------------------- state

VARIABLES
    fifo,                  \* receive_fifo{i}: the stored words, oldest first
    current_bundle,        \* register
    first_bundle_channel,  \* register
    bundles_in,            \* input streams during the last tick (ready is the core's answer)
    ready,                 \* channel_stream_out.ready during the last tick
    channel_stream_out,    \* output stream during the last tick
    read_enable,           \* read_enable[i] during the last tick
    pos,                   \* stimulus: sub-channel each producer sends next
    frame,                 \* stimulus: frame tag of the frame each producer is sending
    pending,               \* history: events accepted into each FIFO and not yet emitted
    emit_count,            \* history: events emitted, modulo two rounds
    round_events,          \* history: events emitted since the selector last returned to bundle 0
    last_nr,               \* history: channel_nr of the last emitted event, -1 before the first
    stall_front,           \* history: the event held at the front of the selected FIFO
                           \*   since the running stall (ready low) first found one there
    replayed,              \* history: the last tick emitted an event held through a stall
    paced,                 \* history: so far every producer offered the first event of a
                           \*   frame only while its FIFO was empty
    silent                 \* stimulus: the bundle whose producer never sets last on an
                           \*   event, -1 when there is none

stim    == <<pos, frame>>
hist    == <<emit_count, round_events, last_nr>>
vars    == <<fifo, current_bundle, first_bundle_channel, bundles_in, ready,
             channel_stream_out, read_enable, pos, frame, pending,
             emit_count, round_events, last_nr, stall_front, replayed, paced,
             silent>>

NoEvent == [payload |-> -1, channel_nr |-> -1, last |-> FALSE]

\* ---------------------------------------------------------------- FIFO wiring

\* Mutant: the last flag is not written into the top bit.
w_data_no_last(payload, channel_nr, lst) ==
    (payload % Pow2(SAMPLE_WIDTH))
    + Pow2(SAMPLE_WIDTH) * (channel_nr % Pow2(fifo_width - SAMPLE_WIDTH))

\* fifo.w_data: the payload, then the channel number from bit SAMPLE_WIDTH
\* up, then the last flag in the top bit (the later assignments win).
w_data(payload, channel_nr, lst) ==
    LET low  == payload % Pow2(fifo_width)
        mid  == (low % Pow2(SAMPLE_WIDTH))
                + Pow2(SAMPLE_WIDTH)
                  * (channel_nr % Pow2(fifo_width - SAMPLE_WIDTH))
        body == mid % Pow2(fifo_width - 1)
    IN  body + Pow2(fifo_width - 1) * (IF lst THEN 1 ELSE 0)

\* SyncFIFO(depth = NO_CHANNELS_ADAT): level-based flags, first-word
\* fall-through; a word written on one tick is readable on the next.
w_rdy(i)  == Len(fifo[i]) # fifo_depth
r_rdy(i)  == Len(fifo[i]) # 0
r_data(i) == IF r_rdy(i) THEN Head(fifo[i]) ELSE 0

\* Variant: the last flag is read one bit too low, from the top bit of the
\* sub-channel field.
last_of_low_bit(word) == (word \div Pow2(fifo_width - 2)) % 2 = 1

\* The slices of a FIFO word: [:sample_width],
\* [sample_width:sample_width + bundle_bits] and [-1].
sample_of(word)  == word % Pow2(SAMPLE_WIDTH)
channel_of(word) == (word \div Pow2(SAMPLE_WIDTH)) % Pow2(bundle_channel_bits)
last_of(word)    == (word \div Pow2(fifo_width - 1)) % 2 = 1

bundle_ready(i)   == r_rdy(i)
bundle_sample(i)  == sample_of(r_data(i))
bundle_channel(i) == channel_of(r_data(i))

\* Variant: the end of a bundle's frame is taken from the sub-channel index
\* (the event with index C-1) instead of the stored last flag.
last_from_channel(i) == bundle_channel(i) = NO_CHANNELS_ADAT - 1

last(i)           == last_of(r_data(i))

\* Array indexing by a signal: an index past the end selects the last element.
ArrayIndex(i) == IF i < no_bundles THEN i ELSE no_bundles - 1

\* ---------------------------------------------------------------- output stage

\* Mutant: the consumer's ready is not part of the condition.
transfer_unguarded(rdy) == bundle_ready(ArrayIndex(current_bundle))

\* Mutant: any bundle with data lets the output stage run.
transfer_any_ready(rdy) == (\E i \in Bundles : bundle_ready(i)) /\ rdy

\* with m.If(bundle_ready[current_bundle] & self.channel_stream_out.ready)
transfer(rdy) == bundle_ready(ArrayIndex(current_bundle)) /\ rdy

\* Mutant: the sum is cut to the width of a bundle's channel number.
out_channel_nr_narrow(base, channel) == (base + channel) % Pow2(bundle_channel_bits)

out_channel_nr(base, channel) == (base + channel) % Pow2(channel_bits)

\* Mutant: first on sub-channel 0 of every bundle.
out_first_any_bundle(bundle, channel) == (channel = 0)

out_first(bundle, channel) == (bundle = 0) /\ (channel = 0)

\* Mutant: last follows the stored flag on every bundle.
out_last_any_bundle(bundle, lst) == lst

out_last(bundle, lst) == lst /\ (bundle = no_bundles - 1)

IdleOut == [valid |-> FALSE, payload |-> 0, channel_nr |-> 0,
            first |-> FALSE, last |-> FALSE]

stream_out(rdy) ==
    LET b == ArrayIndex(current_bundle)
    IN  IF transfer(rdy)
        THEN [valid      |-> TRUE,
              payload    |-> bundle_sample(b),
              channel_nr |-> out_channel_nr(first_bundle_channel, bundle_channel(b)),
              first      |-> out_first(current_bundle, bundle_channel(b)),
              last       |-> out_last(current_bundle, last(b))]
        ELSE IdleOut

\* Variant: an emission enables the read side of every FIFO that holds an
\* event.
read_en_all_ready(rdy) == [i \in Bundles |-> transfer(rdy) /\ bundle_ready(i)]

read_en(rdy) == [i \in Bundles |-> transfer(rdy) /\ i = ArrayIndex(current_bundle)]

\* ---------------------------------------------------------------- selector

\* Variant: the selector does not move on to the next bundle.
advance_bundle_stuck(bundle) == bundle

advance_bundle(bundle) == (bundle + 1) % Pow2(current_bundle_bits)

\* Mutant: first_bundle_channel is only as wide as a bundle's channel number.
advance_channel_narrow(base) == (base + NO_CHANNELS_ADAT) % Pow2(bundle_channel_bits)

\* Mutant: the base advances by one channel instead of one bundle.
advance_channel_by_one(base) == (base + 1) % Pow2(channel_bits)

advance_channel(base) == (base + NO_CHANNELS_ADAT) % Pow2(channel_bits)

\* Mutant: the selector moves on with every transferred event, not only
\* with one whose last flag is set.
next_current_bundle_every(rdy) ==
    IF transfer(rdy)
    THEN IF current_bundle = no_bundles - 1
         THEN 0
         ELSE advance_bundle(current_bundle)
    ELSE current_bundle

next_current_bundle(rdy) ==
    IF transfer(rdy) /\ last(ArrayIndex(current_bundle))
    THEN IF current_bundle = no_bundles - 1
         THEN 0
         ELSE advance_bundle(current_bundle)
    ELSE current_bundle

\* Mutant: the last bundle's branch does not reset first_bundle_channel.
next_first_bundle_channel_no_reset(rdy) ==
    IF transfer(rdy) /\ last(ArrayIndex(current_bundle))
    THEN IF current_bundle = no_bundles - 1
         THEN first_bundle_channel
         ELSE advance_channel(first_bundle_channel)
    ELSE first_bundle_channel

\* Variant: first_bundle_channel moves on with every emitted event instead
\* of with the last event of a bundle's frame only.
next_first_bundle_channel_every(rdy) ==
    IF transfer(rdy)
    THEN IF current_bundle = no_bundles - 1 /\ last(ArrayIndex(current_bundle))
         THEN 0
         ELSE advance_channel(first_bundle_channel)
    ELSE first_bundle_channel

next_first_bundle_channel(rdy) ==
    IF transfer(rdy) /\ last(ArrayIndex(current_bundle))
    THEN IF current_bundle = no_bundles - 1
         THEN 0
         ELSE advance_channel(first_bundle_channel)
    ELSE first_bundle_channel

\* ---------------------------------------------------------------- FIFO update

\* Variant: the top bit of the written word is taken from the input stream's
\* first flag instead of its last flag.
fifo_next_first_bit(i, in, rdy) ==
    LET do_read  == read_en(rdy)[i] /\ r_rdy(i)
        do_write == in.valid /\ w_rdy(i)
        kept     == IF do_read THEN Tail(fifo[i]) ELSE fifo[i]
    IN  IF do_write
        THEN Append(kept, w_data(in.payload, in.channel_nr, in.first))
        ELSE kept

\* Variant: a write is stored whether or not the FIFO has room.
fifo_next_overrun(i, in, rdy) ==
    LET do_read  == read_en(rdy)[i] /\ r_rdy(i)
        do_write == in.valid
        kept     == IF do_read THEN Tail(fifo[i]) ELSE fifo[i]
    IN  IF do_write
        THEN Append(kept, w_data(in.payload, in.channel_nr, in.last))
        ELSE kept

\* One clock edge of receive_fifo{i}: w_en is the input stream's valid,
\* r_en is read_enable[i]; a write needs w_rdy, a read needs r_rdy.
fifo_next(i, in, rdy) ==
    LET do_read  == read_en(rdy)[i] /\ r_rdy(i)
        do_write == in.valid /\ w_rdy(i)
        kept     == IF do_read THEN Tail(fifo[i]) ELSE fifo[i]
    IN  IF do_write
        THEN Append(kept, w_data(in.payload, in.channel_nr, in.last))
        ELSE kept

\* ---------------------------------------------------------------- one tick

EventOf(in) == [payload |-> in.payload, channel_nr |-> in.channel_nr, last |-> in.last]

Tick(ins, rdy) ==
    /\ fifo' = [i \in Bundles |-> fifo_next(i, ins[i], rdy)]
    /\ current_bundle' = next_current_bundle(rdy)
    /\ first_bundle_channel' = next_first_bundle_channel(rdy)
    /\ bundles_in' = [i \in Bundles |->
                        [valid      |-> ins[i].valid,
                         payload    |-> ins[i].payload,
                         channel_nr |-> ins[i].channel_nr,
                         first      |-> ins[i].first,
                         last       |-> ins[i].last,
                         ready      |-> w_rdy(i)]]
    /\ ready' = rdy
    /\ channel_stream_out' = stream_out(rdy)
    /\ read_enable' = read_en(rdy)
    /\ pending' = [i \in Bundles |->
                     LET kept == IF read_en(rdy)[i] /\ pending[i] # <<>>
                                 THEN Tail(pending[i]) ELSE pending[i]
                     IN  IF ins[i].valid /\ w_rdy(i)
                         THEN Append(kept, EventOf(ins[i]))
                         ELSE kept]
    /\ stall_front' =
         IF rdy THEN NoEvent
         ELSE IF stall_front # NoEvent THEN stall_front
         ELSE IF pending[ArrayIndex(current_bundle)] # <<>>
              THEN Head(pending[ArrayIndex(current_bundle)])
              ELSE NoEvent
    /\ replayed' = (rdy /\ stall_front # NoEvent)

\* ---------------------------------------------------------------- stimulus

IdleIn == [valid |-> FALSE, payload |-> 0, channel_nr |-> 0,
           first |-> FALSE, last |-> FALSE]

\* BundleMultiplexerTest.send_one_frame: the signals of one offered event.
send_one_frame(bundle, sample, channel) ==
    [valid      |-> TRUE,
     payload    |-> sample,
     channel_nr |-> channel,
     first      |-> (channel = 0),
     last       |-> (channel = 7)]

\* BundleMultiplexerTest.send_bundle_frame: the event of sub-channel `channel`.
send_bundle_frame(bundle, sample, channel) ==
    send_one_frame(bundle, (sample * 256) + channel, channel)

\* test_smoke sends sample = bundle; the frames of every other round are
\* tagged (frame = 1) by adding no_bundles, so that consecutive frames of a
\* bundle differ.
FrameSample(bundle, tag) == bundle + no_bundles * tag

Reset ==
    /\ fifo = [i \in Bundles |-> <<>>]
    /\ current_bundle = 0
    /\ first_bundle_channel = 0
    /\ bundles_in = [i \in Bundles |->
                       [valid |-> FALSE, payload |-> 0, channel_nr |-> 0,
                        first |-> FALSE, last |-> FALSE, ready |-> TRUE]]
    /\ ready = FALSE
    /\ channel_stream_out = IdleOut
    /\ read_enable = [i \in Bundles |-> FALSE]
    /\ pos = [i \in Bundles |-> 0]
    /\ frame = [i \in Bundles |-> 0]
    /\ pending = [i \in Bundles |-> <<>>]
    /\ emit_count = 0
    /\ round_events = 0
    /\ last_nr = -1
    /\ stall_front = NoEvent
    /\ replayed = FALSE
    /\ paced = TRUE

Init == Reset /\ silent = -1

\* As Init, for producers one of which never sets last.
InitSilent == Reset /\ silent \in Bundles

\* Well-formed producers: each sends frames of NO_CHANNELS_ADAT events,
\* sub-channels in order, and moves on only when its event was accepted.
\* As in test_smoke, one producer drives its stream at a time.
ProducerTick(rdy, who, v) ==
    LET ins == [i \in Bundles |->
                  IF v /\ i = who
                  THEN send_bundle_frame(i, FrameSample(i, frame[i]), pos[i])
                  ELSE IdleIn]
        emitted == transfer(rdy)
        wraps   == emitted /\ current_bundle # 0 /\ next_current_bundle(rdy) = 0
    IN  /\ Tick(ins, rdy)
        /\ pos' = [i \in Bundles |->
                     IF ins[i].valid /\ w_rdy(i)
                     THEN (pos[i] + 1) % NO_CHANNELS_ADAT ELSE pos[i]]
        /\ frame' = [i \in Bundles |->
                       IF ins[i].valid /\ w_rdy(i) /\ pos[i] = NO_CHANNELS_ADAT - 1
                       THEN 1 - frame[i] ELSE frame[i]]
        /\ emit_count' =
             IF emitted
             THEN (emit_count + 1) % (2 * no_bundles * NO_CHANNELS_ADAT)
             ELSE emit_count
        /\ round_events' =
             IF wraps THEN 0
             ELSE IF emitted /\ round_events < no_bundles * NO_CHANNELS_ADAT
                  THEN round_events + 1
                  ELSE round_events
        /\ last_nr' = IF emitted THEN stream_out(rdy).channel_nr ELSE last_nr
        /\ UNCHANGED <<paced, silent>>

TickWF ==
    \E rdy \in BOOLEAN, who \in Bundles, v \in BOOLEAN :
        ProducerTick(rdy, who, v)

\* Arbitrary producers: any of these sub-channel indices, any last flag and
\* any first flag on every event, in any order; the payload is that of
\* send_bundle_frame for the largest 16-bit sample.
AnyChannels == {0, 1, NO_CHANNELS_ADAT - 1}

AnyEvent ==
    {[valid |-> TRUE, payload |-> (65535 * 256) + c, channel_nr |-> c,
      first |-> f, last |-> l] : c \in AnyChannels, f \in BOOLEAN, l \in BOOLEAN}

RECURSIVE Buffered(_)
Buffered(n) == IF n = 0 THEN 0 ELSE Len(fifo[n - 1]) + Buffered(n - 1)

TickAny ==
    \E rdy \in BOOLEAN, who \in Bundles, e \in AnyEvent \cup {IdleIn} :
        LET ins == [i \in Bundles |-> IF i = who THEN e ELSE IdleIn]
        IN  /\ e.valid => Buffered(no_bundles) < MaxPending
            /\ Tick(ins, rdy)
            /\ UNCHANGED <<stim, hist, paced, silent>>

\* Arbitrary producers as in TickAny, except that the producer of bundle
\* `silent` never sets last on an event.
TickSilent ==
    \E rdy \in BOOLEAN, who \in Bundles, e \in AnyEvent \cup {IdleIn} :
        LET ins == [i \in Bundles |-> IF i = who THEN e ELSE IdleIn]
        IN  /\ e.valid => Buffered(no_bundles) < MaxPending
            /\ (e.valid /\ who = silent) => ~e.last
            /\ Tick(ins, rdy)
            /\ UNCHANGED <<stim, hist, paced, silent>>

\* The producers of TickWF, every frame of a bundle carrying the same
\* sample as in test_smoke, with a record of whether each of them has so far
\* waited for its FIFO to be empty before offering the first event of a
\* frame.
TickPaced ==
    \E rdy \in BOOLEAN, who \in Bundles, v \in BOOLEAN :
        LET ins == [i \in Bundles |->
                      IF v /\ i = who
                      THEN send_bundle_frame(i, FrameSample(i, frame[i]), pos[i])
                      ELSE IdleIn]
        IN  /\ Tick(ins, rdy)
            /\ pos' = [i \in Bundles |->
                         IF ins[i].valid /\ w_rdy(i)
                         THEN (pos[i] + 1) % NO_CHANNELS_ADAT ELSE pos[i]]
            /\ paced' = (paced /\ \A i \in Bundles :
                                    (ins[i].valid /\ pos[i] = 0) => fifo[i] = <<>>)
            /\ UNCHANGED <<frame, hist, silent>>

\* ---------------------------------------------------------------- properties

Out == channel_stream_out

EventsPerRound == no_bundles * NO_CHANNELS_ADAT

\* C1. Round-robin order.  With well-formed producers the k-th emitted event
\* (k counted from 0) is read from the FIFO of bundle (k mod N*C) div C and
\* is the event that bundle's producer sent as sub-channel k mod C of its
\* frame of round k div N*C: each round is the whole frame of bundle 0,
\* then that of bundle 1, ..., then that of bundle N-1, whatever the
\* arrival order and the consumer's ready pattern.
RoundRobinOrder ==
    [][Out'.valid =>
         LET k == emit_count % EventsPerRound
             r == emit_count \div EventsPerRound
             b == k \div NO_CHANNELS_ADAT
             s == k % NO_CHANNELS_ADAT
         IN  /\ read_enable' = [i \in Bundles |-> i = b]
             /\ Out'.payload = send_bundle_frame(b, FrameSample(b, r), s).payload
             /\ Len(fifo'[b]) <= Len(fifo[b])]_vars

\* The first event of the second round is emitted from bundle 0 while the
\* FIFO of the last bundle already holds a complete frame.
RoundRobinOrderWitness ==
    /\ Out.valid
    /\ read_enable[0]
    /\ Out.payload = send_bundle_frame(0, FrameSample(0, 1), 0).payload
    /\ Len(fifo[no_bundles - 1]) = fifo_depth

\* C2. Channel numbering.  An event read from the FIFO of bundle b whose
\* written sub-channel index is s is emitted with channel_nr = b*C + s, and
\* every emitted event is read from exactly one FIFO.
ChannelNumbering ==
    [][/\ \A b \in Bundles :
            read_enable'[b] =>
              /\ Out'.valid
              /\ pending[b] # <<>>
              /\ Out'.channel_nr = b * NO_CHANNELS_ADAT + Head(pending[b]).channel_nr
       /\ Out'.valid => Cardinality({b \in Bundles : read_enable'[b]}) = 1]_vars

\* The event with sub-channel index C-1 at the front of the last bundle's
\* FIFO is emitted as channel N*C - 1.
ChannelNumberingWitness ==
    /\ Out.valid
    /\ read_enable[no_bundles - 1]
    /\ Out.channel_nr = EventsPerRound - 1

\* C3. Frame markers.  With well-formed producers, counting the events
\* emitted since the selector last returned to bundle 0: first is asserted on
\* the event at position 0 and on no other, and that event is sub-channel 0
\* of bundle 0; last is asserted on the event at position N*C - 1 and on no
\* other, that event is the last sub-channel of bundle N-1, and it is the
\* event that returns the selector to bundle 0.
FrameMarkers ==
    [][Out'.valid =>
         /\ Out'.first <=> (round_events = 0)
         /\ Out'.last <=> (round_events = EventsPerRound - 1)
         /\ Out'.first =>
               /\ read_enable'[0]
               /\ Head(pending[0]).channel_nr = 0
         /\ Out'.last =>
               /\ read_enable'[no_bundles - 1]
               /\ Head(pending[no_bundles - 1]).channel_nr = NO_CHANNELS_ADAT - 1
               /\ Head(pending[no_bundles - 1]).last
         /\ Out'.last <=> (current_bundle = no_bundles - 1 /\ current_bundle' = 0)]_vars

\* The last event of a round has just been emitted with last set.
FrameMarkersWitness ==
    /\ Out.valid
    /\ Out.last
    /\ ~Out.first
    /\ round_events = 0
    /\ emit_count = EventsPerRound

\* The events a FIFO holds, oldest first, as its read side slices them.
Contents(b) ==
    [k \in 1 .. Len(fifo[b]) |->
       [payload    |-> sample_of(fifo[b][k]),
        channel_nr |-> channel_of(fifo[b][k]),
        last       |-> last_of(fifo[b][k])]]

Selected == ArrayIndex(current_bundle)

\* q is p without its first element, or that with one element appended.
DequeuedOnce(p, q) ==
    /\ p # <<>>
    /\ Len(q) \in {Len(p) - 1, Len(p)}
    /\ \A k \in 1 .. (Len(p) - 1) : q[k] = p[k + 1]

\* q is p, or p with one element appended.
NotDequeued(p, q) ==
    /\ Len(q) \in {Len(p), Len(p) + 1}
    /\ \A k \in 1 .. Len(p) : q[k] = p[k]

\* C4. Per-bundle FIFO order, no loss, no duplication.  pending[b] is the
\* sequence of events accepted into bundle b (input valid and input ready
\* both high) less the events already emitted from b, each emission taking
\* the oldest one.  After every tick the FIFO of b holds exactly pending[b],
\* in order, with payload, sub-channel index and last flag as written; and
\* an event emitted from b is the oldest pending one: its payload is the
\* written payload, its channel_nr the selector's base plus the written
\* sub-channel index, and the FIFO is dequeued by exactly that event.
FifoOrder ==
    [][/\ \A b \in Bundles : Contents(b)' = pending'[b]
       /\ \A b \in Bundles :
            read_enable'[b] =>
              /\ pending[b] # <<>>
              /\ Out'.valid
              /\ Out'.payload = Head(pending[b]).payload
              /\ Out'.channel_nr = first_bundle_channel + Head(pending[b]).channel_nr
              /\ Out'.last = (Head(pending[b]).last /\ b = no_bundles - 1)
              /\ DequeuedOnce(fifo[b], fifo'[b])
       /\ \A b \in Bundles :
            ~read_enable'[b] => NotDequeued(fifo[b], fifo'[b])
       /\ \A b \in Bundles :
            Len(fifo'[b]) > Len(fifo[b]) - (IF read_enable'[b] THEN 1 ELSE 0)
              => /\ bundles_in'[b].valid
                 /\ bundles_in'[b].ready
                 /\ Contents(b)'[Len(fifo'[b])] = EventOf(bundles_in'[b])]_vars

\* An event was emitted from a FIFO in the same tick in which a different
\* event, with its last flag set, was accepted into that FIFO behind it.
FifoOrderWitness ==
    \E b \in Bundles :
        /\ read_enable[b]
        /\ bundles_in[b].valid
        /\ bundles_in[b].ready
        /\ Len(pending[b]) = 1
        /\ pending[b][1].last
        /\ Out.payload # pending[b][1].payload

\* C5. Backpressure losslessness.  On a tick with the consumer's ready low
\* no event is emitted, no FIFO is read or loses an element and the selector
\* keeps its state; the first event emitted once ready is high again is the
\* event the selected FIFO held at its front during the stall, and it is
\* dequeued once by that emission.
BackpressureLossless ==
    [][/\ ~ready' =>
            /\ ~Out'.valid
            /\ \A b \in Bundles :
                 /\ ~read_enable'[b]
                 /\ NotDequeued(fifo[b], fifo'[b])
                 /\ NotDequeued(pending[b], pending'[b])
            /\ current_bundle' = current_bundle
            /\ first_bundle_channel' = first_bundle_channel
       /\ (ready' /\ stall_front # NoEvent) =>
            /\ Out'.valid
            /\ Out'.payload = stall_front.payload
            /\ Out'.channel_nr = first_bundle_channel + stall_front.channel_nr
            /\ Out'.last = (stall_front.last /\ current_bundle = no_bundles - 1)
            /\ read_enable'[Selected]
            /\ stall_front = Head(pending[Selected])
            /\ DequeuedOnce(fifo[Selected], fifo'[Selected])
            /\ DequeuedOnce(pending[Selected], pending'[Selected])]_vars

\* An event held through a stall has just been emitted while a second
\* event, accepted during the stall, stays behind it.
BackpressureLosslessWitness ==
    /\ replayed
    /\ Out.valid
    /\ \E b \in Bundles :
         /\ read_enable[b]
         /\ ~bundles_in[b].valid
         /\ Len(pending[b]) = 1
         /\ pending[b][1].payload # Out.payload

\* C6. Idempotent reset.  With well-formed producers, whenever the events
\* emitted so far make up whole rounds (a multiple of N*C events, that is N
\* whole frames per round), the selector is in its power-on state
\* (current_bundle, first_bundle_channel) = (0, 0).
IdempotentReset ==
    (emit_count % EventsPerRound = 0)
        => (current_bundle = 0 /\ first_bundle_channel = 0)

\* The last event of the first round has just been consumed.
IdempotentResetWitness ==
    /\ emit_count = EventsPerRound
    /\ Out.valid
    /\ read_enable[no_bundles - 1]
    /\ current_bundle = 0
    /\ first_bundle_channel = 0

\* C7. Selector invariant, for arbitrary input events:
\* current_bundle is in 0..N-1 and first_bundle_channel = current_bundle * C.
SelectorInvariant ==
    /\ current_bundle \in Bundles
    /\ first_bundle_channel = current_bundle * NO_CHANNELS_ADAT

\* The selector has just advanced on a malformed frame: the event with
\* sub-channel index 0 of bundle 0 carried the last flag.
SelectorInvariantWitness ==
    /\ Out.valid
    /\ Out.first
    /\ read_enable[0]
    /\ current_bundle = 1
    /\ first_bundle_channel = NO_CHANNELS_ADAT

\* C8. No skip-ahead.  On a tick on which the FIFO of the selected bundle
\* is empty, no event is emitted, no FIFO is read or dequeued and the
\* selector keeps its state, whatever the consumer's ready and the other
\* FIFOs; so an event is emitted only when the selected FIFO holds data.
NoSkipAhead ==
    [][(fifo[Selected] = <<>>) =>
         /\ ~Out'.valid
         /\ \A b \in Bundles :
              /\ ~read_enable'[b]
              /\ NotDequeued(fifo[b], fifo'[b])
         /\ current_bundle' = current_bundle
         /\ first_bundle_channel' = first_bundle_channel]_vars

\* The consumer was ready, the selected FIFO was and is empty, nothing was
\* emitted, and another bundle's FIFO holds a complete frame.
NoSkipAheadWitness ==
    /\ ready
    /\ ~Out.valid
    /\ \A b \in Bundles : ~bundles_in[b].valid
    /\ fifo[Selected] = <<>>
    /\ \E b \in Bundles :
         /\ b # Selected
         /\ Len(fifo[b]) = fifo_depth
         /\ last_of(fifo[b][fifo_depth])

\* C9. Output channel_nr sequence.  With well-formed producers every
\* emitted event either has first set and channel_nr = 0, or follows an
\* emitted event and has that event's channel_nr plus 1; and channel_nr = 0
\* exactly on the events with first set.
ChannelSequence ==
    [][Out'.valid =>
         /\ \/ Out'.first /\ Out'.channel_nr = 0
            \/ last_nr # -1 /\ Out'.channel_nr = last_nr + 1
         /\ (Out'.channel_nr = 0) <=> Out'.first]_vars

\* The first event of bundle 1 has just followed the last event of bundle 0.
ChannelSequenceWitness ==
    /\ Out.valid
    /\ read_enable[1]
    /\ Out.channel_nr = NO_CHANNELS_ADAT
    /\ last_nr = NO_CHANNELS_ADAT

\* C10. Output markers, for arbitrary input events.  first is asserted only
\* on a tick that emits an event read from bundle 0 with stored sub-channel
\* index 0; last only on a tick that emits an event read from bundle N-1
\* with its stored last flag set; neither on a tick without emission; and an
\* event with its last flag set read from another bundle is emitted with
\* last clear.
MarkerDefinition ==
    [][/\ Out'.first =>
            /\ Out'.valid
            /\ current_bundle = 0
            /\ read_enable'[0]
            /\ pending[0] # <<>>
            /\ Head(pending[0]).channel_nr = 0
       /\ Out'.last =>
            /\ Out'.valid
            /\ current_bundle = no_bundles - 1
            /\ read_enable'[no_bundles - 1]
            /\ pending[no_bundles - 1] # <<>>
            /\ Head(pending[no_bundles - 1]).last
       /\ ~Out'.valid => (~Out'.first /\ ~Out'.last)
       /\ \A b \in Bundles :
            (read_enable'[b] /\ b # no_bundles - 1 /\ pending[b] # <<>>
               /\ Head(pending[b]).last)
              => (Out'.valid /\ ~Out'.last)]_vars

\* An event with its last flag set has just been emitted from bundle 0:
\* the selector advanced and the output last was clear.
MarkerDefinitionWitness ==
    /\ Out.valid
    /\ ~Out.last
    /\ read_enable[0]
    /\ current_bundle = 1

\* The input signals a producer drove during the last tick, as recorded in
\* bundles_in (the ready field is driven by the core, not by the producer).
InputOf(rec) == [valid |-> rec.valid, payload |-> rec.payload,
                 channel_nr |-> rec.channel_nr, first |-> rec.first,
                 last |-> rec.last]

\* C11. The input first flag does not influence the core.  On every tick,
\* whatever values the first flags of the input streams are replaced by, the
\* FIFO contents after the tick, the output stream, the read enables, the
\* input ready signals and the selector are the same as those the tick
\* produced; so two runs whose inputs differ only in the first flags agree
\* on all of them tick for tick.
FirstFlagIgnored ==
    [][/\ \A i \in Bundles, f \in BOOLEAN :
            /\ fifo'[i] =
                 fifo_next(i, [InputOf(bundles_in'[i]) EXCEPT !.first = f], ready')
            /\ bundles_in'[i].ready = w_rdy(i)
       /\ channel_stream_out' = stream_out(ready')
       /\ read_enable' = read_en(ready')
       /\ current_bundle' = next_current_bundle(ready')
       /\ first_bundle_channel' = next_first_bundle_channel(ready')]_vars

\* An event offered with first set on a sub-channel other than 0 and with
\* last clear has been accepted, and the word stored for it is the only one
\* in its FIFO.
FirstFlagIgnoredWitness ==
    \E b \in Bundles :
        /\ pending[b] # <<>>
        /\ bundles_in[b].valid
        /\ bundles_in[b].ready
        /\ bundles_in[b].first
        /\ bundles_in[b].channel_nr # 0
        /\ fifo[b] = <<w_data(bundles_in[b].payload, bundles_in[b].channel_nr,
                              bundles_in[b].last)>>
        /\ ~bundles_in[b].last

\* The number of events that entered the FIFO of bundle b in the tick just
\* taken: its growth, plus the event its read side removed.
Entered(b) ==
    Len(fifo'[b]) - Len(fifo[b])
      + (IF read_enable'[b] /\ fifo[b] # <<>> THEN 1 ELSE 0)

\* C12. Bounded buffers.  Each FIFO holds at most C events; a bundle's
\* input ready is asserted exactly when its FIFO holds fewer than C events;
\* an event enters a FIFO only on a tick where that bundle's valid and ready
\* are both high, at most one per bundle per tick, and it is the offered
\* event; a FIFO is dequeued only when it is non-empty, selected and the
\* consumer is ready, and then by exactly its front event.
BoundedBuffers ==
    [][\A b \in Bundles :
         /\ Len(fifo[b]) <= NO_CHANNELS_ADAT
         /\ Len(fifo'[b]) <= NO_CHANNELS_ADAT
         /\ bundles_in'[b].ready <=> (Len(fifo[b]) < NO_CHANNELS_ADAT)
         /\ Entered(b) \in {0, 1}
         /\ Entered(b) = 1 =>
              /\ bundles_in'[b].valid
              /\ bundles_in'[b].ready
              /\ fifo'[b][Len(fifo'[b])] =
                   w_data(bundles_in'[b].payload, bundles_in'[b].channel_nr,
                          bundles_in'[b].last)
         /\ (bundles_in'[b].valid /\ bundles_in'[b].ready) => Entered(b) = 1
         /\ read_enable'[b] =>
              /\ fifo[b] # <<>>
              /\ b = Selected
              /\ ready'
              /\ DequeuedOnce(fifo[b], fifo'[b])
         /\ ~read_enable'[b] => NotDequeued(fifo[b], fifo'[b])]_vars

\* While the consumer withholds ready, the C-th event of a frame has just
\* been accepted into a FIFO that now holds C events, and another bundle's
\* FIFO holds events too.
BoundedBuffersWitness ==
    \E b \in Bundles :
        /\ Len(fifo[b]) = NO_CHANNELS_ADAT
        /\ bundles_in[b].valid
        /\ bundles_in[b].ready
        /\ ~ready
        /\ \E o \in Bundles \ {b} : fifo[o] # <<>>

\* C13 as stated.  With handshake producers sending well-formed frames, no
\* producer ever has valid asserted while its FIFO holds C events (its input
\* ready low), whatever the consumer's ready pattern and the producers'
\* relative timing.
FullNeverMeetsValid ==
    \A b \in Bundles : ~(bundles_in[b].valid /\ ~bundles_in[b].ready)

\* C13. Buffer full on a well-behaved producer.  When, in addition, every
\* producer has offered the first event of each frame only while its FIFO
\* was empty (it waits until its previous frame has been emitted), no
\* producer has valid asserted while its FIFO holds C events: every offered
\* event is accepted on the tick it is offered.
PacedNeverFull ==
    paced => \A b \in Bundles : bundles_in[b].valid => bundles_in[b].ready

\* Producers that waited as above have filled a FIFO with a whole frame, the
\* C-th event accepted on this tick, while the consumer has emitted nothing
\* of it.
PacedNeverFullWitness ==
    /\ paced
    /\ \E b \in Bundles :
         /\ Len(fifo[b]) = NO_CHANNELS_ADAT
         /\ bundles_in[b].valid
         /\ bundles_in[b].channel_nr = NO_CHANNELS_ADAT - 1

\* C14. Missing last flag.  When the producer of bundle b never writes an
\* event with last set, then from the first tick on which the selector
\* equals b it equals b after every later tick, first_bundle_channel never
\* changes again, and no FIFO other than that of b is read, so no event of
\* another bundle is emitted; events of b keep being emitted as they arrive.
MissingLastStalls ==
    [][current_bundle = silent =>
         /\ current_bundle' = silent
         /\ first_bundle_channel' = first_bundle_channel
         /\ \A o \in Bundles \ {silent} : ~read_enable'[o]
         /\ (ready' /\ fifo[silent] # <<>>) =>
              /\ Out'.valid
              /\ read_enable'[silent]]_vars

\* The selector has reached a bundle other than 0 whose producer never sets
\* last; its event with sub-channel index C-1 is emitted, the selector stays,
\* and another bundle's FIFO holds an event that waits.
MissingLastStallsWitness ==
    /\ silent # 0
    /\ current_bundle = silent
    /\ Out.valid
    /\ read_enable[silent]
    /\ Out.channel_nr = first_bundle_channel + NO_CHANNELS_ADAT - 1
    /\ \E o \in Bundles \ {silent} : fifo[o] # <<>>

\* C15. Emission condition.  An output event is emitted on a tick exactly
\* when the selected FIFO is non-empty and the consumer's ready is high.
\* The emitted event is the front of the selected FIFO (its sample, and its
\* sub-channel index added to first_bundle_channel); exactly that FIFO is
\* dequeued, by that one event; no other FIFO is dequeued; and on a tick
\* without emission no FIFO is dequeued.
EmissionCondition ==
    [][/\ Out'.valid <=> (fifo[Selected] # <<>> /\ ready')
       /\ Out'.valid =>
            /\ Out'.payload = sample_of(Head(fifo[Selected]))
            /\ Out'.channel_nr =
                 first_bundle_channel + channel_of(Head(fifo[Selected]))
            /\ read_enable' = [i \in Bundles |-> i = Selected]
            /\ DequeuedOnce(fifo[Selected], fifo'[Selected])
            /\ Len(fifo'[Selected]) =
                 Len(fifo[Selected]) - 1
                   + (IF bundles_in'[Selected].valid /\ bundles_in'[Selected].ready
                      THEN 1 ELSE 0)
            /\ \A o \in Bundles \ {Selected} : NotDequeued(fifo[o], fifo'[o])
       /\ ~Out'.valid =>
            /\ Out' = IdleOut
            /\ \A b \in Bundles :
                 /\ ~read_enable'[b]
                 /\ NotDequeued(fifo[b], fifo'[b])]_vars

\* An event is emitted from the selected FIFO, which is empty afterwards,
\* while another bundle's FIFO holds an event that stays.
EmissionConditionWitness ==
    /\ Out.valid
    /\ ready
    /\ \E b \in Bundles :
         /\ read_enable[b]
         /\ fifo[b] = <<>>
         /\ \E o \in Bundles \ {b} : fifo[o] # <<>> /\ ~bundles_in[o].valid

\* C16. Selector transition on the trusted last flag.  On a tick that
\* consumes an event from bundle b whose last flag was written set, the
\* selector after the tick is (0, 0) when b = N-1 and
\* (b + 1, first_bundle_channel + C) otherwise, whatever the event's
\* sub-channel index; on a tick that consumes an event written with last
\* clear, the one with sub-channel index C-1 included, the selector does not
\* move.
SelectorTransition ==
    [][\A b \in Bundles :
         read_enable'[b] =>
           /\ pending[b] # <<>>
           /\ b = current_bundle
           /\ Head(pending[b]).last =>
                IF b = no_bundles - 1
                THEN /\ current_bundle' = 0
                     /\ first_bundle_channel' = 0
                ELSE /\ current_bundle' = b + 1
                     /\ first_bundle_channel' =
                          first_bundle_channel + NO_CHANNELS_ADAT
           /\ ~Head(pending[b]).last =>
                /\ current_bundle' = b
                /\ first_bundle_channel' = first_bundle_channel]_vars

\* An event of bundle 0 with sub-channel index 1 and last set has been
\* consumed and the selector has moved to bundle 1.
SelectorTransitionWitness ==
    /\ Out.valid
    /\ read_enable[0]
    /\ Out.channel_nr = 1
    /\ current_bundle = 1
    /\ first_bundle_channel = NO_CHANNELS_ADAT

\* C17. Selector frame condition.  On a tick without emission, and on a
\* tick that emits an event whose last flag was written clear,
\* current_bundle and first_bundle_channel keep their values; in particular
\* a write into any bundle's FIFO never changes the selector.
SelectorFrameCondition ==
    [][(~Out'.valid \/ ~Head(pending[Selected]).last) =>
         /\ current_bundle' = current_bundle
         /\ first_bundle_channel' = first_bundle_channel]_vars

\* With the selector at bundle 1, an event with last set has been written
\* into the FIFO of bundle 0 on a tick that emits an event of bundle 1 with
\* last clear, and the selector has stayed.
SelectorFrameConditionWitness ==
    /\ current_bundle = 1
    /\ first_bundle_channel = NO_CHANNELS_ADAT
    /\ Out.valid
    /\ read_enable[1]
    /\ bundles_in[0].valid
    /\ bundles_in[0].ready
    /\ bundles_in[0].last
    /\ fifo[0] # <<>>

\* The largest bundle count for which the width of the channel number field
\* is checked.
MaxBundleCount == 8

\* C18. Channel number range.  For any input, malformed frames included:
\* first_bundle_channel never exceeds (N-1)*C; every emitted channel_nr is
\* the untruncated sum of first_bundle_channel and the sub-channel index of
\* the consumed event and lies in 0 .. N*C - 1; the channel number field
\* is wide enough for N*C - 1; and for every bundle count n from 1 to
\* MaxBundleCount the width computed for the field holds n*C - 1.
ChannelRange ==
    [][/\ first_bundle_channel' \in 0 .. (no_bundles - 1) * NO_CHANNELS_ADAT
       /\ no_bundles * NO_CHANNELS_ADAT - 1 < Pow2(channel_bits)
       /\ Out'.valid =>
            /\ Out'.channel_nr \in 0 .. (no_bundles * NO_CHANNELS_ADAT - 1)
            /\ Out'.channel_nr =
                 first_bundle_channel + channel_of(Head(fifo[Selected]))
            /\ first_bundle_channel + channel_of(Head(fifo[Selected]))
                 < Pow2(channel_bits)
       /\ \A n \in 1 .. MaxBundleCount :
            /\ n * NO_CHANNELS_ADAT - 1 < Pow2(bits_for(n * NO_CHANNELS_ADAT - 1))
            /\ n - 1 < Pow2(bits_for(n - 1))]_vars

\* The largest channel number, N*C - 1, has been emitted from the last
\* bundle by an event with last set, and the selector is back at (0, 0).
ChannelRangeWitness ==
    /\ Out.valid
    /\ Out.last
    /\ Out.channel_nr = no_bundles * NO_CHANNELS_ADAT - 1
    /\ current_bundle = 0
    /\ first_bundle_channel = 0

\* C20. A write while full is rejected without effect.  On a tick where a
\* bundle's valid is asserted while its FIFO holds C events, that bundle's
\* input ready is low and no event enters its FIFO; the contents of that
\* FIFO and of every other FIFO after the tick are those the tick would have
\* produced with that valid low: the stored events in their order, less the
\* front one if it was emitted, nothing overwritten; and the output, the
\* read enables and the selector are those of the tick without the write.
WriteWhileFullRejected ==
    [][\A b \in Bundles :
         (bundles_in'[b].valid /\ Len(fifo[b]) = NO_CHANNELS_ADAT) =>
           LET quiet == [i \in Bundles |->
                           IF i = b THEN IdleIn ELSE InputOf(bundles_in'[i])]
           IN  /\ ~bundles_in'[b].ready
               /\ Entered(b) = 0
               /\ fifo'[b] = IF read_enable'[b] THEN Tail(fifo[b]) ELSE fifo[b]
               /\ fifo' = [i \in Bundles |-> fifo_next(i, quiet[i], ready')]
               /\ pending'[b] = IF read_enable'[b] THEN Tail(pending[b])
                                ELSE pending[b]
               /\ channel_stream_out' = stream_out(ready')
               /\ read_enable' = read_en(ready')
               /\ current_bundle' = next_current_bundle(ready')
               /\ first_bundle_channel' = next_first_bundle_channel(ready')]_vars

\* A producer offered an event to its full FIFO on the tick that emitted
\* that FIFO's front event: the offer was refused and the FIFO now holds the
\* C-1 events that were behind the front.
WriteWhileFullRejectedWitness ==
    \E b \in Bundles :
        /\ bundles_in[b].valid
        /\ ~bundles_in[b].ready
        /\ read_enable[b]
        /\ Out.valid
        /\ Len(fifo[b]) = NO_CHANNELS_ADAT - 1

\* A tick of the handshake producers on which an output event is emitted.
Emit ==
    /\ bundle_ready(Selected)
    /\ \E who \in Bundles, v \in BOOLEAN : ProducerTick(TRUE, who, v)

\* A tick of the handshake producers on which the event offered by the
\* producer of bundle b is accepted.
Offer(b) ==
    /\ w_rdy(b)
    /\ \E rdy \in BOOLEAN : ProducerTick(rdy, b, TRUE)

\* The consumer asserts ready again and again, so an event waiting at the
\* front of the selected FIFO is emitted; every producer keeps offering its
\* next event while its FIFO has room, so the event is accepted.
Fairness ==
    /\ WF_vars(Emit)
    /\ \A b \in Bundles : WF_vars(Offer(b))

\* C19. Progress.  When the consumer asserts ready infinitely often and
\* every producer keeps offering its next well-formed event whenever its
\* FIFO has room: events are emitted again and again, so no state is reached
\* from which nothing more can be emitted; a non-empty FIFO is eventually
\* read, so that, the FIFOs keeping their order, every event held in one
\* is eventually emitted; every bundle is selected infinitely often; and
\* the selector is back at (0, 0) infinitely often.
Progress ==
    /\ []<>Out.valid
    /\ \A b \in Bundles : (fifo[b] # <<>>) ~> read_enable[b]
    /\ \A b \in Bundles : []<>(current_bundle = b)
    /\ []<>(current_bundle = 0 /\ first_bundle_channel = 0 /\ Out.valid /\ Out.last)

\* In the second round of emissions the selector is at the last bundle
\* while every FIFO holds events.
ProgressWitness ==
    /\ emit_count > EventsPerRound
    /\ current_bundle = no_bundles - 1
    /\ \A b \in Bundles : fifo[b] # <<>>

\* ---------------------------------------------------------------- specifications

Next   == TickAny
NextWF == TickWF
NextPaced == TickPaced
NextSilent == TickSilent

Spec   == Init /\ [][Next]_vars
SpecWF == Init /\ [][NextWF]_vars
SpecPaced == Init /\ [][NextPaced]_vars
SpecSilent == InitSilent /\ [][NextSilent]_vars
SpecLive == Init /\ [][NextWF]_vars /\ Fairness

====
